---- MODULE Spec2Model ----
(***************************************************************************)
(* WeightCut (src/app.py): the calorie / macro planning engine, the        *)
(* weight-log store it reads, and the Streamlit sessions that drive them.  *)
(*                                                                         *)
(* Numbers.  The program computes with Python floats.  Here every number   *)
(* is an exact decimal fixed-point value: a sign and a magnitude counted   *)
(* in units of 10^-(4*FracLimbs), the magnitude held as little-endian      *)
(* limbs of base Base because the products exceed TLC's 32-bit integers.   *)
(* All inputs and program constants are decimals with few places, so every *)
(* sum, difference and product below is exact; binary rounding of floats   *)
(* is not modelled.                                                        *)
(***************************************************************************)
EXTENDS Integers, Sequences, FiniteSets, TLC

\* ------------------------------------------------------------------------
\* Exact decimal arithmetic (the model of Python's float +, -, *, <, >)
\* ------------------------------------------------------------------------

\* limb base of a magnitude: four decimal digits to a limb
Base == 10 * 10 * 10 * 10
\* number of fractional limbs: 4 * FracLimbs decimal places
FracLimbs == 5

Abs(n) == IF n < 0 THEN -n ELSE n

RECURSIVE Zeros(_)
Zeros(k) == IF k <= 0 THEN << >> ELSE <<0>> \o Zeros(k - 1)

\* strip the high-order zero limbs
RECURSIVE NatNorm(_)
NatNorm(a) ==
    IF a = << >> THEN << >>
    ELSE IF a[Len(a)] = 0 THEN NatNorm(SubSeq(a, 1, Len(a) - 1))
    ELSE a

RECURSIVE NatOfInt(_)
NatOfInt(n) == IF n = 0 THEN << >> ELSE <<n % Base>> \o NatOfInt(n \div Base)

RECURSIVE NatAddC(_, _, _)
NatAddC(a, b, c) ==
    IF a = << >> /\ b = << >>
    THEN (IF c = 0 THEN << >> ELSE <<c>>)
    ELSE LET x == (IF a = << >> THEN 0 ELSE Head(a))
                  + (IF b = << >> THEN 0 ELSE Head(b)) + c
         IN  <<x % Base>> \o NatAddC(IF a = << >> THEN a ELSE Tail(a),
                                     IF b = << >> THEN b ELSE Tail(b),
                                     x \div Base)

NatAdd(a, b) == NatAddC(a, b, 0)

\* a - b for a >= b, limb by limb with borrow w
RECURSIVE NatSubB(_, _, _)
NatSubB(a, b, w) ==
    IF a = << >> THEN << >>
    ELSE LET x == Head(a) - (IF b = << >> THEN 0 ELSE Head(b)) - w
         IN  <<IF x < 0 THEN x + Base ELSE x>>
             \o NatSubB(Tail(a), IF b = << >> THEN b ELSE Tail(b),
                        IF x < 0 THEN 1 ELSE 0)

NatSub(a, b) == NatNorm(NatSubB(a, b, 0))

\* -1, 0, 1 as a < b, a = b, a > b: compare limbs i, i-1, ..., 1
RECURSIVE NatCmpAt(_, _, _)
NatCmpAt(a, b, i) ==
    IF i = 0 THEN 0
    ELSE IF a[i] < b[i] THEN -1
    ELSE IF a[i] > b[i] THEN 1
    ELSE NatCmpAt(a, b, i - 1)

NatCmp(a, b) ==
    IF Len(a) < Len(b) THEN -1
    ELSE IF Len(a) > Len(b) THEN 1
    ELSE NatCmpAt(a, b, Len(a))

\* a * k + c for one limb k
RECURSIVE NatMulLimb(_, _, _)
NatMulLimb(a, k, c) ==
    IF a = << >> THEN (IF c = 0 THEN << >> ELSE <<c>>)
    ELSE LET x == Head(a) * k + c
         IN  <<x % Base>> \o NatMulLimb(Tail(a), k, x \div Base)

RECURSIVE NatMul(_, _)
NatMul(a, b) ==
    IF a = << >> \/ b = << >> THEN << >>
    ELSE LET rest == NatMul(a, Tail(b))
         IN  NatAdd(NatMulLimb(a, Head(b), 0),
                    IF rest = << >> THEN rest ELSE <<0>> \o rest)

\* 10^j as a magnitude
Pow10(j) ==
    Zeros(j \div 4) \o << CASE j % 4 = 0 -> 1
                            [] j % 4 = 1 -> 10
                            [] j % 4 = 2 -> 100
                            [] j % 4 = 3 -> 1000 >>

\* a number: sign and magnitude; zero is never negative
Num(neg, mag) == [neg |-> neg /\ mag # << >>, mag |-> mag]

\* the decimal literal n / 10^k, e.g. Dec(1725, 3) is 1.725
Dec(n, k) == Num(n < 0, NatMul(NatOfInt(Abs(n)), Pow10(4 * FracLimbs - k)))

Neg(x) == Num(~x.neg, x.mag)

Add(x, y) ==
    IF x.neg = y.neg THEN Num(x.neg, NatAdd(x.mag, y.mag))
    ELSE IF NatCmp(x.mag, y.mag) >= 0 THEN Num(x.neg, NatSub(x.mag, y.mag))
    ELSE Num(y.neg, NatSub(y.mag, x.mag))

Sub(x, y) == Add(x, Neg(y))

\* the product, rescaled by dropping the FracLimbs low limbs (all zero as
\* long as the exact product has at most 4 * FracLimbs decimal places)
Mul(x, y) ==
    LET p == NatMul(x.mag, y.mag)
    IN  Num(x.neg # y.neg,
            IF Len(p) <= FracLimbs THEN << >>
            ELSE SubSeq(p, FracLimbs + 1, Len(p)))

\* -1, 0, 1 as x < y, x = y, x > y
Cmp(x, y) ==
    IF x.neg # y.neg THEN (IF x.neg THEN -1 ELSE 1)
    ELSE IF x.neg THEN NatCmp(y.mag, x.mag)
    ELSE NatCmp(x.mag, y.mag)

Lt(x, y) == Cmp(x, y) < 0
Gt(x, y) == Cmp(x, y) > 0

\* x / k for a small positive integer k, kept as an exact ratio
Over(x, k) == [num |-> x, den |-> k]

\* x / y for a number y other than 0, kept as an exact ratio, and its
\* comparison with a number c
Quot(x, y) == [num |-> x, den |-> y]
QuotLt(q, c) ==
    IF Gt(q.den, Dec(0, 0)) THEN Lt(q.num, Mul(c, q.den)) ELSE Gt(q.num, Mul(c, q.den))
QuotGt(q, c) ==
    IF Gt(q.den, Dec(0, 0)) THEN Gt(q.num, Mul(c, q.den)) ELSE Lt(q.num, Mul(c, q.den))

\* Python's None, and the truth value of an optional number ("if x:")
PyNone == [none |-> TRUE]
Zero == Dec(0, 0)
Truthy(x) == x # PyNone /\ x # Zero

\* ------------------------------------------------------------------------
\* The planning engine (pure functions of src/app.py)
\* ------------------------------------------------------------------------

\* mutant: nutrient_map with fat and carbs exchanged
nutrient_id_of_swapped(name) ==
    CASE name = "calories" -> 1008
      [] name = "protein" -> 1003
      [] name = "fat" -> 1005
      [] name = "carbs" -> 1004
      [] name = "fiber" -> 1079
      [] name = "sodium" -> 1093

\* nutrient_map, read from the name to the nutrient id
nutrient_id_of(name) ==
    CASE name = "calories" -> 1008
      [] name = "protein" -> 1003
      [] name = "fat" -> 1004
      [] name = "carbs" -> 1005
      [] name = "fiber" -> 1079
      [] name = "sodium" -> 1093

\* the values macros[name] can end with: 0.0 from "Initialize with zeros"
\* when the query returns no row of the nutrient (rows with a NULL amount are
\* filtered out by it), else the amount of the row the loop meets last, the
\* order of the rows being the database's choice
amounts_of(food_nutrient, fdc_id, name) ==
    LET df == {r \in food_nutrient : /\ r.fdc_id = fdc_id
                                     /\ r.nutrient_id = nutrient_id_of(name)
                                     /\ r.amount # PyNone}
    IN  IF df = {} THEN {Zero} ELSE {r.amount : r \in df}

\* the dicts get_food_macros can return for the table food_nutrient
get_food_macros(food_nutrient, fdc_id) ==
    [calories : amounts_of(food_nutrient, fdc_id, "calories"),
     protein : amounts_of(food_nutrient, fdc_id, "protein"),
     fat : amounts_of(food_nutrient, fdc_id, "fat"),
     carbs : amounts_of(food_nutrient, fdc_id, "carbs"),
     fiber : amounts_of(food_nutrient, fdc_id, "fiber"),
     sodium : amounts_of(food_nutrient, fdc_id, "sodium")]

\* mutant: the carb remainder clamped at zero
carb_remainder_clamped(target_calories, protein_calories, fat_calories) ==
    LET c == Sub(Sub(target_calories, protein_calories), fat_calories)
    IN  IF Lt(c, Zero) THEN Zero ELSE c

\* "Carbs fill remaining calories"
carb_remainder(target_calories, protein_calories, fat_calories) ==
    Sub(Sub(target_calories, protein_calories), fat_calories)

calculate_macros(weight, target_calories, fat_percentage, carb_percentage, lean_body_mass) ==
    LET protein_grams == IF Truthy(lean_body_mass)
                         THEN Mul(lean_body_mass, Dec(12, 1))
                         ELSE weight
        protein_calories == Mul(protein_grams, Dec(4, 0))
        fat_calories == Mul(target_calories, fat_percentage)
        carb_calories == IF carb_percentage # PyNone
                         THEN Mul(target_calories, carb_percentage)
                         ELSE carb_remainder(target_calories, protein_calories, fat_calories)
    IN  [protein_grams |-> protein_grams,
         protein_calories |-> protein_calories,
         fat_grams |-> Over(fat_calories, 9),
         fat_calories |-> fat_calories,
         carb_grams |-> Over(carb_calories, 4),
         carb_calories |-> carb_calories]

\* mutant: the default row applied to days_to_goal >= 4 only, the last taper
\* row to everything below 2
calculate_micros_taper_below(days_to_goal) ==
    IF days_to_goal = 3 THEN [fiber_grams |-> 8, sodium_mg |-> 1500]
    ELSE IF days_to_goal = 2 THEN [fiber_grams |-> 5, sodium_mg |-> 1000]
    ELSE IF days_to_goal <= 1 THEN [fiber_grams |-> 4, sodium_mg |-> 800]
    ELSE [fiber_grams |-> 30, sodium_mg |-> 2300]

calculate_micros(days_to_goal) ==
    IF days_to_goal = 3 THEN [fiber_grams |-> 8, sodium_mg |-> 1500]
    ELSE IF days_to_goal = 2 THEN [fiber_grams |-> 5, sodium_mg |-> 1000]
    ELSE IF days_to_goal = 1 THEN [fiber_grams |-> 4, sodium_mg |-> 800]
    ELSE [fiber_grams |-> 30, sodium_mg |-> 2300]

\* mutant: the filter log_date <= current left out
latest_weight_log_any_date(session, username, current) ==
    LET rows == {r \in session : r.username = username}
    IN  {r \in rows : \A q \in rows : q.log_date <= r.log_date}

\* (The parameter current_date of the source is written `current` throughout;
\* current_date names the session variable declared further down.)
\* The rows session.query(WeightLog).filter_by(username).filter(log_date <=
\* current_date).order_by(log_date desc).first() may return: the rows of the
\* user with the greatest date not after current.  The order among rows
\* of equal date is the database's choice.  Empty when .first() is None.
latest_weight_log(session, username, current) ==
    LET rows == {r \in session : r.username = username /\ r.log_date <= current}
    IN  {r \in rows : \A q \in rows : q.log_date <= r.log_date}

\* mutant: the protocol applies under 3 days only
within_standard_protocol_under_3(days_to_goal) == days_to_goal < 3

\* "Only adjust if more than 3 days out"
within_standard_protocol(days_to_goal) == days_to_goal <= 3

\* mutant: the result without a weight log does not carry the flag
info_without_log_unflagged == [adjusted |-> FALSE, reason |-> "no weight logged"]

\* the info dict returned when no weight log is found
info_without_log ==
    [adjusted |-> FALSE, reason |-> "no weight logged", needs_weight_log |-> TRUE]

\* mutant: the 1 lb band taken without its end points
adjustment_for_inclusive(weight_difference) ==
    IF ~Lt(weight_difference, Dec(1, 0)) THEN -200
    ELSE IF ~Gt(weight_difference, Dec(-1, 0)) THEN 200
    ELSE 0

\* mutant: the two steps exchanged
adjustment_for_exchanged(weight_difference) ==
    IF Gt(weight_difference, Dec(1, 0)) THEN 200
    ELSE IF Lt(weight_difference, Dec(-1, 0)) THEN -200
    ELSE 0

\* "Adjustment logic": the step for a difference from the target progression
adjustment_for(weight_difference) ==
    IF Gt(weight_difference, Dec(1, 0)) THEN -200
    ELSE IF Lt(weight_difference, Dec(-1, 0)) THEN 200
    ELSE 0

\* What the function returns once the query has produced `latest`
\* (a row, or PyNone): the calorie target and the adjustment info dict.
adjust_with_log(base_calories, target_weight, days_to_goal, latest) ==
    IF within_standard_protocol(days_to_goal)
    THEN [calories |-> base_calories,
          info |-> [adjusted |-> FALSE, reason |-> "within 3 days"]]
    ELSE IF latest = PyNone
    THEN [calories |-> base_calories, info |-> info_without_log]
    ELSE LET actual_weight == latest.weight
             target_weight_at_this_stage == Mul(target_weight, Dec(105, 2))
             weight_difference == Sub(actual_weight, target_weight_at_this_stage)
             adjustment == adjustment_for(weight_difference)
             adjustment_reason == IF adjustment < 0 THEN "above target progression"
                                  ELSE IF adjustment > 0 THEN "below target progression"
                                  ELSE "on track"
         IN  [calories |-> Add(base_calories, Dec(adjustment, 0)),
              info |-> [adjusted |-> adjustment # 0,
                        adjustment |-> adjustment,
                        reason |-> adjustment_reason,
                        actual_weight |-> actual_weight,
                        target_weight_at_stage |-> target_weight_at_this_stage,
                        difference |-> weight_difference]]

\* mutant: without a weight log the stated current weight is compared
adjust_calories_based_on_progress_stated_weight(base_calories, current_weight, target_weight, days_to_goal, session, username, current) ==
    LET found == latest_weight_log(session, username, current)
    IN  IF within_standard_protocol(days_to_goal)
        THEN {adjust_with_log(base_calories, target_weight, days_to_goal, PyNone)}
        ELSE IF found = {}
        THEN {adjust_with_log(base_calories, target_weight, days_to_goal,
                              [weight |-> current_weight])}
        ELSE {adjust_with_log(base_calories, target_weight, days_to_goal, r) : r \in found}

\* The set of results the call can produce (one per row .first() may return).
\* The query runs only when days_to_goal > 3.
adjust_calories_based_on_progress(base_calories, current_weight, target_weight, days_to_goal, session, username, current) ==
    LET found == latest_weight_log(session, username, current)
    IN  IF within_standard_protocol(days_to_goal) \/ found = {}
        THEN {adjust_with_log(base_calories, target_weight, days_to_goal, PyNone)}
        ELSE {adjust_with_log(base_calories, target_weight, days_to_goal, r) : r \in found}

\* mutant: Katch-McArdle for every body fat percentage given, 0 included
body_fat_known_or_zero(bodyfat_percentage) == bodyfat_percentage # PyNone

\* "if bodyfat_percentage and bodyfat_percentage > 0"
body_fat_known(bodyfat_percentage) ==
    Truthy(bodyfat_percentage) /\ Gt(bodyfat_percentage, Zero)

\* mutant: the body fat fraction added to the lean mass instead of taken off
calculate_bmr_and_calories_fat_added(weight, height, bodyfat_percentage) ==
    LET height_cm == Mul(height, Dec(254, 2))
        weight_kg == Mul(weight, Dec(453592, 6))
    IN  IF body_fat_known(bodyfat_percentage)
        THEN LET lean_body_mass_kg ==
                     Mul(weight_kg, Add(Dec(1, 0), Mul(bodyfat_percentage, Dec(1, 2))))
             IN  Add(Dec(370, 0), Mul(Dec(216, 1), lean_body_mass_kg))
        ELSE Add(Sub(Add(Mul(Dec(10, 0), weight_kg), Mul(Dec(625, 2), height_cm)),
                     Mul(Dec(5, 0), Dec(30, 0))),
                 Dec(5, 0))

calculate_bmr_and_calories(weight, height, bodyfat_percentage) ==
    LET height_cm == Mul(height, Dec(254, 2))
        weight_kg == Mul(weight, Dec(453592, 6))
    IN  IF body_fat_known(bodyfat_percentage)
        THEN LET lean_body_mass_kg ==
                     Mul(weight_kg, Sub(Dec(1, 0), Mul(bodyfat_percentage, Dec(1, 2))))
             IN  Add(Dec(370, 0), Mul(Dec(216, 1), lean_body_mass_kg))
        ELSE Add(Sub(Add(Mul(Dec(10, 0), weight_kg), Mul(Dec(625, 2), height_cm)),
                     Mul(Dec(5, 0), Dec(30, 0))),
                 Dec(5, 0))

\* lean body mass in pounds, as both pages compute it before calculate_macros
lean_body_mass_of(weight, bodyfat_percentage) ==
    IF body_fat_known(bodyfat_percentage)
    THEN Mul(weight, Sub(Dec(1, 0), Mul(bodyfat_percentage, Dec(1, 2))))
    ELSE PyNone

\* mutant: the default row taken as the moderate tier
activity_tier_moderate_default(bmr, days_to_goal) ==
    IF days_to_goal = 3 THEN [base_calories |-> Mul(bmr, Dec(1725, 3)), fat_pct |-> Dec(25, 2)]
    ELSE IF days_to_goal = 1 THEN [base_calories |-> Mul(bmr, Dec(1375, 3)), fat_pct |-> Dec(45, 2)]
    ELSE [base_calories |-> Mul(bmr, Dec(155, 2)), fat_pct |-> Dec(35, 2)]

\* base calories and fat percentage by days to goal (food_log_page)
activity_tier(bmr, days_to_goal) ==
    IF days_to_goal = 3 THEN [base_calories |-> Mul(bmr, Dec(1725, 3)), fat_pct |-> Dec(25, 2)]
    ELSE IF days_to_goal = 2 THEN [base_calories |-> Mul(bmr, Dec(155, 2)), fat_pct |-> Dec(35, 2)]
    ELSE IF days_to_goal = 1 THEN [base_calories |-> Mul(bmr, Dec(1375, 3)), fat_pct |-> Dec(45, 2)]
    ELSE [base_calories |-> Mul(bmr, Dec(1725, 3)), fat_pct |-> Dec(25, 2)]

\* the same table as profile_page writes it
profile_activity_tier(bmr, days_to_goal) ==
    IF days_to_goal = 3 THEN [base_calories |-> Mul(bmr, Dec(1725, 3)), fat_pct |-> Dec(25, 2)]
    ELSE IF days_to_goal = 2 THEN [base_calories |-> Mul(bmr, Dec(155, 2)), fat_pct |-> Dec(35, 2)]
    ELSE IF days_to_goal = 1 THEN [base_calories |-> Mul(bmr, Dec(1375, 3)), fat_pct |-> Dec(45, 2)]
    ELSE [base_calories |-> Mul(bmr, Dec(1725, 3)), fat_pct |-> Dec(25, 2)]

\* mutant: the macros computed from the unadjusted base calories
macro_calories_base(tier, adj) == tier.base_calories

\* the calories handed to calculate_macros: the adjuster's target_calories
macro_calories(tier, adj) == adj.calories

\* One day's targets given the adjuster's result `adj`.
assemble(bmr, lean_body_mass, days_to_goal, tier, adj, weight) ==
    [bmr |-> bmr,
     days_to_goal |-> days_to_goal,
     base_calories |-> tier.base_calories,
     fat_pct |-> tier.fat_pct,
     target_calories |-> adj.calories,
     adjustment_info |-> adj.info,
     macros |-> calculate_macros(weight, macro_calories(tier, adj), tier.fat_pct,
                                 PyNone, lean_body_mass),
     micros |-> calculate_micros(days_to_goal)]

\* food_log_page, "Calculate targets using body composition": the set of
\* daily targets the page can compute for the saved profile and the date shown.
food_log_targets(profile, session, username, current) ==
    LET bmr == calculate_bmr_and_calories(profile.weight, profile.height,
                                          profile.bodyfat_percentage)
        lean_body_mass == lean_body_mass_of(profile.weight, profile.bodyfat_percentage)
        days_to_goal == profile.target_date - current
        tier == activity_tier(bmr, days_to_goal)
    IN  {assemble(bmr, lean_body_mass, days_to_goal, tier, adj, profile.weight) :
            adj \in adjust_calories_based_on_progress(
                        tier.base_calories, profile.weight, profile.target_weight,
                        days_to_goal, session, username, current)}

\* profile_page, "Calculate and display macros dynamically": the preview of
\* the form's values; nothing is computed unless weight > 0 and height > 0.
profile_targets(form, session, username) ==
    IF ~(Gt(form.weight, Zero) /\ Gt(form.height, Zero)) THEN {}
    ELSE
    LET bmr == calculate_bmr_and_calories(form.weight, form.height, form.bodyfat_percentage)
        lean_body_mass == lean_body_mass_of(form.weight, form.bodyfat_percentage)
        days_to_goal == form.target_date - form.today_date
        tier == profile_activity_tier(bmr, days_to_goal)
    IN  {assemble(bmr, lean_body_mass, days_to_goal, tier, adj, form.weight) :
            adj \in adjust_calories_based_on_progress(
                        tier.base_calories, form.weight, form.target_weight,
                        days_to_goal, session, username, form.today_date)}

\* adjustment_info.get('needs_weight_log') as a condition: None (a missing
\* key) is false
get_needs_weight_log(adjustment_info) ==
    "needs_weight_log" \in DOMAIN adjustment_info /\ adjustment_info.needs_weight_log

\* mutant: the calorie delta shown whenever a weight log exists
food_log_display_reads_unchecked(adjustment_info, days_to_goal) ==
    IF get_needs_weight_log(adjustment_info) THEN {"reason"}
    ELSE {"adjustment", "reason"}

\* food_log_page, "Show calorie adjustment info if applicable": the keys of
\* adjustment_info the branch taken subscripts (a subscript of a missing key
\* raises KeyError; .get does not)
food_log_display_reads(adjustment_info, days_to_goal) ==
    IF get_needs_weight_log(adjustment_info) THEN {"reason"}
    ELSE IF "adjusted" \notin DOMAIN adjustment_info THEN {"adjusted"}
    ELSE IF adjustment_info.adjusted THEN {"adjusted", "adjustment", "reason"}
    ELSE IF days_to_goal > 3 THEN {"adjusted", "reason"}
    ELSE {"adjusted"}

\* profile_page, the same block: its last branch shows the reason for every
\* days_to_goal
profile_display_reads(adjustment_info, days_to_goal) ==
    IF get_needs_weight_log(adjustment_info) THEN {"reason"}
    ELSE IF "adjusted" \notin DOMAIN adjustment_info THEN {"adjusted"}
    ELSE IF adjustment_info.adjusted THEN {"adjusted", "adjustment", "reason"}
    ELSE {"adjusted", "reason"}

\* the display block of page pg
display_reads(pg, adjustment_info, days_to_goal) ==
    IF pg = "profile" THEN profile_display_reads(adjustment_info, days_to_goal)
    ELSE food_log_display_reads(adjustment_info, days_to_goal)

\* progress_page, "Progress bar": ((starting_weight - current_weight) /
\* total_to_lose) * 100, then max(0, min(100, .)); called with
\* starting_weight != target_weight
progress_percentage(starting_weight, current_weight, target_weight) ==
    LET total_to_lose == Sub(target_weight, starting_weight)
        percentage == Quot(Mul(Sub(starting_weight, current_weight), Dec(100, 0)),
                           total_to_lose)
        at_most_100 == IF QuotLt(percentage, Dec(100, 0)) THEN percentage
                       ELSE Quot(Dec(100, 0), Dec(1, 0))
    IN  IF QuotGt(at_most_100, Zero) THEN at_most_100 ELSE Quot(Zero, Dec(1, 0))

\* progress_page, "Calculate statistics" and the progress bar: weight_logs is
\* the user's entries ordered by log_date, its first the starting and its
\* last the current weight (rows of one date come in the database's order).
\* Nothing is computed without an entry, no percentage when the starting
\* weight is the target weight.
progress_statistics(session, username, target_weight) ==
    LET weight_logs_of_user == {r \in session : r.username = username}
        first_rows == {r \in weight_logs_of_user :
                          \A q \in weight_logs_of_user : r.log_date <= q.log_date}
        last_rows == {r \in weight_logs_of_user :
                         \A q \in weight_logs_of_user : q.log_date <= r.log_date}
    IN  {[starting_weight |-> f.weight, current_weight |-> l.weight,
          progress_percentage |->
              IF f.weight # target_weight
              THEN progress_percentage(f.weight, l.weight, target_weight)
              ELSE PyNone] :
            <<f, l>> \in {pr \in first_rows \X last_rows :
                             Cardinality(weight_logs_of_user) > 1 => pr[1] # pr[2]}}

\* ------------------------------------------------------------------------
\* Bounds and input domains
\* ------------------------------------------------------------------------

\* calendar days are integers; the sessions' "today" is day MaxBack, so the
\* Previous button can go back MaxBack days
MaxBack == 1
\* the weight histories handed to the pure functions span days 0 .. MaxDate
MaxDate == 2
\* days_to_goal ranges over -2 .. MaxDays in the calls of the pure functions
MaxDays == 5
\* most rows in a weight history handed to a pure function
MaxLogs == 2

Today == MaxBack
Dates == 0 .. MaxBack
HistoryDates == 0 .. MaxDate
Users == {"u1", "u2"}

\* target weights, and logged weights around 150 * 1.05 = 157.5: exactly
\* 1.0 lb and 1.1 lb off on either side, and on the mark
TargetWeights == {Dec(1500, 1), Dec(1600, 1)}
LogWeights == {Dec(1564, 1), Dec(1565, 1), Dec(1575, 1), Dec(1585, 1), Dec(1586, 1)}

\* a row of weight_logs
WeightLogRow(id, username, log_date, weight) ==
    [id |-> id, username |-> username, log_date |-> log_date, weight |-> weight]

\* rows a history may hold: any logged weight for u1, one weight for u2
CandidateRows ==
    {WeightLogRow(0, "u1", d, w) : d \in HistoryDates, w \in LogWeights}
    \cup {WeightLogRow(0, "u2", d, Dec(1700, 1)) : d \in HistoryDates}

\* number the rows of a set 1, 2, ... (primary keys), in any one order
RECURSIVE Numbered(_, _)
Numbered(rows, n) ==
    IF rows = {} THEN {}
    ELSE LET r == CHOOSE x \in rows : TRUE
         IN  {[r EXCEPT !.id = n]} \cup Numbered(rows \ {r}, n + 1)

\* the subsets of S with at most k elements
RECURSIVE SubsetsUpTo(_, _)
SubsetsUpTo(S, k) ==
    IF k = 0 THEN {{}}
    ELSE LET less == SubsetsUpTo(S, k - 1)
         IN  less \cup {x \cup {e} : x \in less, e \in S}

\* weight histories of at most MaxLogs rows; two rows may share user and date
Histories == {Numbered(h, 1) : h \in SubsetsUpTo(CandidateRows, MaxLogs)}
SmallHistories == {Numbered(h, 1) : h \in SubsetsUpTo(CandidateRows, 1)}

\* the histories the assembled plans are computed from: at most one row,
\* logged on day 0
PlanHistories == {h \in SmallHistories : \A r \in h : r.log_date = 0}

DaysToGoal == -2 .. MaxDays
Weights == {Dec(1800, 1), Dec(1090, 1)}
Heights == {Dec(70, 0), Dec(665, 1)}
BodyFats == {PyNone, Zero, Dec(20, 0), Dec(146, 1), Dec(100, 0)}

\* most rows in a food_nutrient table handed to get_food_macros
MaxFoodRows == 2

\* rows of food_nutrient: two foods; energy, fat, carbs and a nutrient the
\* query does not ask for (1087, calcium); NULL and two amounts
FoodRows ==
    {[fdc_id |-> f, nutrient_id |-> n, amount |-> a] :
        f \in {1, 2}, n \in {1008, 1004, 1005, 1087},
        a \in {PyNone, Dec(52, 0), Dec(3, 1)}}

FoodTables == SubsetsUpTo(FoodRows, MaxFoodRows)

Profile(username, weight, target_weight, today_date, target_date, bodyfat_percentage, height) ==
    [username |-> username, weight |-> weight, target_weight |-> target_weight,
     today_date |-> today_date, target_date |-> target_date,
     bodyfat_percentage |-> bodyfat_percentage, height |-> height]

\* weights logged on the first and on a later day, and the histories the
\* progress page is called with: one or two entries of u1, with or without
\* an entry of u2
ProgressWeights == {Dec(1500, 1), Dec(1650, 1), Dec(1800, 1), Dec(1900, 1)}
ProgressHistories ==
    {{WeightLogRow(1, "u1", 0, a)} \cup later \cup other :
        a \in ProgressWeights,
        later \in {{}} \cup {{WeightLogRow(2, "u1", 1, b)} : b \in ProgressWeights},
        other \in {{}, {WeightLogRow(3, "u2", 2, Dec(1400, 1))}}}

\* the arguments of one call of a pure function
CallInputs ==
    {[fn |-> "adjust", base_calories |-> Dec(25005, 1), current_weight |-> Dec(1800, 1),
      target_weight |-> t, days_to_goal |-> n, session |-> h, username |-> "u1",
      current_date |-> d] :
        t \in TargetWeights, n \in DaysToGoal, h \in SmallHistories, d \in HistoryDates}
    \cup
    {[fn |-> "adjust", base_calories |-> Dec(25005, 1), current_weight |-> Dec(1800, 1),
      target_weight |-> Dec(1500, 1), days_to_goal |-> n, session |-> h,
      username |-> "u1", current_date |-> d] :
        n \in {4}, h \in Histories, d \in HistoryDates}
    \cup
    {[fn |-> "display", page |-> pg, base_calories |-> Dec(25005, 1),
      current_weight |-> Dec(1800, 1), target_weight |-> Dec(1500, 1),
      days_to_goal |-> n, session |-> h, username |-> "u1", current_date |-> d] :
        pg \in {"profile", "food_log"}, n \in DaysToGoal, h \in SmallHistories,
        d \in HistoryDates}
    \cup
    {[fn |-> "progress", session |-> h, username |-> "u1", target_weight |-> t] :
        h \in ProgressHistories, t \in {Dec(1500, 1), Dec(1800, 1)}}
    \cup
    {[fn |-> "bmr", weight |-> w, height |-> ht, bodyfat_percentage |-> bf] :
        w \in Weights, ht \in Heights, bf \in BodyFats}
    \cup
    {[fn |-> "macros", weight |-> w, target_calories |-> c, fat_percentage |-> f,
      carb_percentage |-> cp, lean_body_mass |-> l] :
        w \in Weights, c \in {Dec(25005, 1), Dec(600, 0)},
        f \in {Dec(25, 2), Dec(35, 2), Dec(45, 2)},
        cp \in {PyNone, Dec(5, 1)},
        l \in {PyNone, Zero, Dec(144, 0)}}
    \cup
    {[fn |-> "micros", days_to_goal |-> n] : n \in DaysToGoal}
    \cup
    {[fn |-> "food_macros", food_nutrient |-> t, fdc_id |-> f] :
        t \in FoodTables, f \in {1, 3}}
    \cup
    {[fn |-> "food_log",
      profile |-> Profile("u1", w, Dec(1500, 1), Today, Today + n, bf, ht),
      session |-> h, username |-> "u1", current_date |-> d] :
        w \in Weights, ht \in Heights, bf \in BodyFats, n \in DaysToGoal,
        h \in PlanHistories, d \in {Today}}
    \cup
    {[fn |-> "profile",
      form |-> Profile("u1", w, Dec(1500, 1), Today, Today + n, bf, ht),
      session |-> h, username |-> "u1"] :
        w \in Weights \cup {Zero}, ht \in Heights, bf \in BodyFats \ {PyNone},
        n \in DaysToGoal, h \in PlanHistories}

\* ------------------------------------------------------------------------
\* State
\* ------------------------------------------------------------------------

\* most weight-log rows ever inserted (the primary keys run 1 .. MaxRows)
MaxRows == 2

\* browser sessions; each has its own st.session_state
Sessions == {"s1", "s2"}
\* who types a username into the login page of which browser: s1 is used by
\* both users in turn, s2 is a second browser of u1
SessionUsers == [s \in Sessions |-> IF s = "s1" THEN Users ELSE {"u1"}]
\* logged_in_user = None
NoUser == "None"
\* the accounts of the users table, already signed up
Accounts == {[username |-> "u1", password |-> "pw1"], [username |-> "u2", password |-> "pw2"]}
\* what is typed into the two text inputs of the login form when signing up
\* or logging in: nothing, the name of an account, a new name
SignUpNames == {"", "u1", "u3"}
SignUpPasswords == {"", "pw1", "pw9"}
\* weights typed into the weight form (min_value = 0.0)
FormWeights == {Zero, Dec(1586, 1)}
\* what a user saves as a profile: the untouched form (all 0.0, target date
\* today) or a filled one
ProfileForms ==
    {[weight |-> Zero, target_weight |-> Zero, height |-> Zero,
      bodyfat_percentage |-> Zero, today_date |-> Today, target_date |-> Today],
     [weight |-> Dec(1800, 1), target_weight |-> Dec(1500, 1), height |-> Dec(70, 0),
      bodyfat_percentage |-> Dec(20, 0), today_date |-> Today, target_date |-> Today + 5]}

\* ------------------------------------------------------------------------
\* State
\* ------------------------------------------------------------------------

VARIABLES
    users,              \* table users: rows [username, password]
    profiles,           \* table profiles: rows Profile(...)
    weight_logs,        \* table weight_logs: rows WeightLogRow(...)
    next_id,            \* the next primary key of weight_logs
    page,               \* st.session_state.page of each session
    logged_in_user,     \* st.session_state.logged_in_user
    current_date,       \* st.session_state.current_date
    show_weight_form,   \* st.session_state.show_weight_form
    run,                \* the script run of a submitted weight form, between
                        \* its query of the day's entry and its commit
    bmr_args,           \* the arguments the session's latest script run handed
                        \* to calculate_bmr_and_calories, PyNone if it made no call
    targets,            \* the daily targets that run computed, PyNone if none
    shown,              \* what the sign-up handler of the session's latest run
                        \* showed (st.error / st.success) and for which form
                        \* input, PyNone if the run showed no such message
    call,               \* the arguments of the call of a pure function under check
    ret                 \* what the call returned, PyNone before it has run

dbVars == <<users, profiles, weight_logs, next_id>>
sessionVars == <<page, logged_in_user, current_date, show_weight_form, run>>
outVars == <<bmr_args, targets, shown>>
calcVars == <<call, ret>>
vars == <<users, profiles, weight_logs, next_id, page, logged_in_user, current_date,
          show_weight_form, run, bmr_args, targets, shown, call, ret>>

\* the database as the program finds it, and st.session_state as the script
\* initialises it for every new session
InitApp ==
    /\ users = Accounts
    /\ profiles = {}
    /\ weight_logs = {}
    /\ next_id = 1
    /\ page = [s \in Sessions |-> "login"]
    /\ logged_in_user = [s \in Sessions |-> NoUser]
    /\ current_date = [s \in Sessions |-> Today]
    /\ show_weight_form = [s \in Sessions |-> FALSE]
    /\ run = [s \in Sessions |-> PyNone]
    /\ bmr_args = [s \in Sessions |-> PyNone]
    /\ targets = [s \in Sessions |-> PyNone]
    /\ shown = [s \in Sessions |-> PyNone]

InitCalc == InitApp /\ call \in CallInputs /\ ret = PyNone

Call_adjust ==
    /\ call.fn = "adjust" /\ ret = PyNone
    /\ ret' \in adjust_calories_based_on_progress(
                    call.base_calories, call.current_weight, call.target_weight,
                    call.days_to_goal, call.session, call.username, call.current_date)
    /\ UNCHANGED <<call, dbVars, sessionVars, outVars>>

Call_bmr ==
    /\ call.fn = "bmr" /\ ret = PyNone
    /\ ret' = calculate_bmr_and_calories(call.weight, call.height, call.bodyfat_percentage)
    /\ UNCHANGED <<call, dbVars, sessionVars, outVars>>

Call_macros ==
    /\ call.fn = "macros" /\ ret = PyNone
    /\ ret' = calculate_macros(call.weight, call.target_calories, call.fat_percentage,
                               call.carb_percentage, call.lean_body_mass)
    /\ UNCHANGED <<call, dbVars, sessionVars, outVars>>

Call_micros ==
    /\ call.fn = "micros" /\ ret = PyNone
    /\ ret' = calculate_micros(call.days_to_goal)
    /\ UNCHANGED <<call, dbVars, sessionVars, outVars>>

Call_food_macros ==
    /\ call.fn = "food_macros" /\ ret = PyNone
    /\ ret' \in get_food_macros(call.food_nutrient, call.fdc_id)
    /\ UNCHANGED <<call, dbVars, sessionVars, outVars>>

\* the adjuster's result as a page shows it
Call_display ==
    /\ call.fn = "display" /\ ret = PyNone
    /\ \E adj \in adjust_calories_based_on_progress(
                      call.base_calories, call.current_weight, call.target_weight,
                      call.days_to_goal, call.session, call.username, call.current_date) :
          ret' = [info |-> adj.info,
                  reads |-> display_reads(call.page, adj.info, call.days_to_goal)]
    /\ UNCHANGED <<call, dbVars, sessionVars, outVars>>

Call_progress ==
    /\ call.fn = "progress" /\ ret = PyNone
    /\ ret' \in progress_statistics(call.session, call.username, call.target_weight)
    /\ UNCHANGED <<call, dbVars, sessionVars, outVars>>

Call_food_log ==
    /\ call.fn = "food_log" /\ ret = PyNone
    /\ ret' \in food_log_targets(call.profile, call.session, call.username, call.current_date)
    /\ UNCHANGED <<call, dbVars, sessionVars, outVars>>

Call_profile ==
    /\ call.fn = "profile" /\ ret = PyNone
    /\ ret' \in profile_targets(call.form, call.session, call.username)
    /\ UNCHANGED <<call, dbVars, sessionVars, outVars>>

NextCalc ==
    \/ Call_adjust
    \/ Call_bmr
    \/ Call_macros
    \/ Call_micros
    \/ Call_food_macros
    \/ Call_display
    \/ Call_progress
    \/ Call_food_log
    \/ Call_profile

SpecCalc == InitCalc /\ [][NextCalc]_vars

\* ------------------------------------------------------------------------
\* The application: pages, session state and the weight-log store
\* ------------------------------------------------------------------------

\* no script run of session s is between a query and its commit
Idle(s) == run[s] = PyNone

ProfileOf(u) == {p \in profiles : p.username = u}

\* the script run of session s calls calculate_bmr_and_calories with `args`
\* and arrives at the daily targets `plan`
Computes(s, args, plan) ==
    /\ bmr_args' = [bmr_args EXCEPT ![s] = args]
    /\ targets' = [targets EXCEPT ![s] = plan]
    /\ shown' = [shown EXCEPT ![s] = PyNone]

\* a script run that reaches no plan computation
ComputesNothing(s) == Computes(s, PyNone, PyNone)

BmrArgs(p) ==
    [weight |-> p.weight, height |-> p.height, bodyfat_percentage |-> p.bodyfat_percentage]

FormOf(p) ==
    [weight |-> p.weight, target_weight |-> p.target_weight, height |-> p.height,
     bodyfat_percentage |-> p.bodyfat_percentage, today_date |-> p.today_date,
     target_date |-> p.target_date]

\* a weight history that makes the adjuster's query return weight w on or
\* before day d (no entry for PyNone)
one_entry(w, d) == IF w = PyNone THEN {} ELSE {WeightLogRow(1, "u1", d, w)}

\* The plans of the food log page for every profile, evaluation date and
\* latest logged weight the sessions can meet, each computed once by
\* food_log_targets and looked up by the actions.
FoodLogPlanTable ==
    {[form |-> f, latest |-> w, current |-> d,
      plans |-> food_log_targets(
                    Profile("u1", f.weight, f.target_weight, f.today_date, f.target_date,
                            f.bodyfat_percentage, f.height),
                    one_entry(w, d), "u1", d)] :
        f \in ProfileForms, w \in FormWeights \cup {PyNone}, d \in Dates}

\* The same for the profile page, computed once by profile_targets.
ProfilePlanTable ==
    {[form |-> f, latest |-> w,
      plans |-> profile_targets(f, one_entry(w, f.today_date), "u1")] :
        f \in ProfileForms, w \in FormWeights \cup {PyNone}}

\* the weights the query of the adjuster may return from `session`
latest_weights(session, username, current) ==
    LET found == latest_weight_log(session, username, current)
    IN  IF found = {} THEN {PyNone} ELSE {r.weight : r \in found}

\* food_log_targets, looked up
food_log_plans_of(form, session, username, current) ==
    UNION {(CHOOSE c \in FoodLogPlanTable :
                /\ c.form = form /\ c.latest = w /\ c.current = current).plans :
              w \in latest_weights(session, username, current)}

\* profile_targets, looked up
profile_plans_of(form, session, username) ==
    UNION {(CHOOSE c \in ProfilePlanTable : c.form = form /\ c.latest = w).plans :
              w \in latest_weights(session, username, form.today_date)}

\* profile_page down to the macro breakdown, the widgets holding `form`:
\* the breakdown is computed under `if weight > 0 and height > 0`
profile_page(s, form, session, username) ==
    IF ~(Gt(form.weight, Zero) /\ Gt(form.height, Zero)) THEN ComputesNothing(s)
    ELSE \E plan \in profile_plans_of(form, session, username) :
            Computes(s, BmrArgs(form), plan)

\* the values the widgets of profile_page start from: the existing profile's
\* ("Pre-fill if profile exists"), else 0.0 and today
profile_defaults(profs, username) ==
    LET existing == {p \in profs : p.username = username}
    IN  IF existing = {}
        THEN {[weight |-> Zero, target_weight |-> Zero, height |-> Zero,
               bodyfat_percentage |-> Zero, today_date |-> Today, target_date |-> Today]}
        ELSE {[weight |-> p.weight, target_weight |-> p.target_weight, height |-> p.height,
               bodyfat_percentage |-> p.bodyfat_percentage, today_date |-> Today,
               target_date |-> p.target_date] : p \in existing}

\* mutant: the targets memoised per session, recomputed only when the days
\* to goal change
food_log_page_cached(s, profs, session, username, current) ==
    LET mine == {p \in profs : p.username = username}
    IN  IF mine = {} THEN ComputesNothing(s)
        ELSE \E p \in mine :
                IF targets[s] # PyNone /\ targets[s].days_to_goal = p.target_date - current
                THEN UNCHANGED <<bmr_args, targets, shown>>
                ELSE \E plan \in food_log_plans_of(FormOf(p), session, username, current) :
                        Computes(s, BmrArgs(p), plan)

\* food_log_page from "Get user profile for targets" down to the targets:
\* without a profile the page returns before any computation
food_log_page(s, profs, session, username, current) ==
    LET mine == {p \in profs : p.username = username}
    IN  IF mine = {} THEN ComputesNothing(s)
        ELSE \E p \in mine :
                \E plan \in food_log_plans_of(FormOf(p), session, username, current) :
                    Computes(s, BmrArgs(p), plan)

\* the script run that follows st.rerun() on page `target` (the dispatch at
\* the end of the script); login and progress pages compute no plan
page_run(s, target, username) ==
    CASE target = "profile" ->
            \E form \in profile_defaults(profiles, username) :
                profile_page(s, form, weight_logs, username)
      [] target = "food_log" ->
            food_log_page(s, profiles, weight_logs, username, current_date[s])
      [] OTHER -> ComputesNothing(s)

\* login_page, Login button: a row of users matches username and password
Login(s, u, pw) ==
    /\ Idle(s) /\ page[s] = "login"
    /\ \E row \in users : row.username = u /\ row.password = pw
    /\ logged_in_user' = [logged_in_user EXCEPT ![s] = u]
    /\ page' = [page EXCEPT ![s] = "profile"]
    /\ page_run(s, "profile", u)
    /\ UNCHANGED <<dbVars, current_date, show_weight_form, run, calcVars>>

\* mutant: the Logout button resets the page only
Logout_page_only(s) ==
    /\ Idle(s) /\ page[s] \in {"profile", "food_log", "progress"}
    /\ page' = [page EXCEPT ![s] = "login"]
    /\ ComputesNothing(s)
    /\ UNCHANGED <<dbVars, logged_in_user, current_date, show_weight_form, run, calcVars>>

\* the Logout button of the profile, food-log and progress pages
Logout(s) ==
    /\ Idle(s) /\ page[s] \in {"profile", "food_log", "progress"}
    /\ logged_in_user' = [logged_in_user EXCEPT ![s] = NoUser]
    /\ page' = [page EXCEPT ![s] = "login"]
    /\ ComputesNothing(s)
    /\ UNCHANGED <<dbVars, current_date, show_weight_form, run, calcVars>>

\* mutant: the run that computes the plan consumes the weight entry it read
GoTo_consuming(s, target) ==
    /\ Idle(s) /\ page[s] \in {"profile", "food_log", "progress"} \ {target}
    /\ target \in {"profile", "food_log", "progress"}
    /\ page' = [page EXCEPT ![s] = target]
    /\ page_run(s, target, logged_in_user[s])
    /\ weight_logs' = weight_logs \ latest_weight_log(weight_logs, logged_in_user[s],
                                                       current_date[s])
    /\ UNCHANGED <<users, profiles, next_id, logged_in_user, current_date,
                   show_weight_form, run, calcVars>>

\* the navigation buttons between the three pages of a logged-in user
GoTo(s, target) ==
    /\ Idle(s) /\ page[s] \in {"profile", "food_log", "progress"} \ {target}
    /\ target \in {"profile", "food_log", "progress"}
    /\ page' = [page EXCEPT ![s] = target]
    /\ page_run(s, target, logged_in_user[s])
    /\ UNCHANGED <<dbVars, logged_in_user, current_date, show_weight_form, run, calcVars>>

\* mutant: an existing profile keeps its target weight and target date
SaveProfile_partial(s, form) ==
    /\ Idle(s) /\ page[s] = "profile"
    /\ profile_page(s, form, weight_logs, logged_in_user[s])
    /\ profiles' = IF ProfileOf(logged_in_user[s]) = {}
                   THEN profiles \cup {Profile(logged_in_user[s], form.weight,
                                               form.target_weight, form.today_date,
                                               form.target_date, form.bodyfat_percentage,
                                               form.height)}
                   ELSE (profiles \ ProfileOf(logged_in_user[s]))
                        \cup {Profile(logged_in_user[s], form.weight, p.target_weight,
                                      form.today_date, p.target_date,
                                      form.bodyfat_percentage, form.height) :
                                 p \in ProfileOf(logged_in_user[s])}
    /\ UNCHANGED <<users, weight_logs, next_id, sessionVars, calcVars>>

\* profile_page, Save Profile: the run shows the breakdown of the form's
\* values, then the user's rows are deleted and the form's values inserted,
\* in one transaction
SaveProfile(s, form) ==
    /\ Idle(s) /\ page[s] = "profile"
    /\ profile_page(s, form, weight_logs, logged_in_user[s])
    /\ profiles' = (profiles \ ProfileOf(logged_in_user[s]))
                   \cup {Profile(logged_in_user[s], form.weight, form.target_weight,
                                 form.today_date, form.target_date,
                                 form.bodyfat_percentage, form.height)}
    /\ UNCHANGED <<users, weight_logs, next_id, sessionVars, calcVars>>

\* mutant: the Previous button leaves the weight form as it is
Previous_form_kept(s) ==
    /\ Idle(s) /\ page[s] = "food_log"
    /\ current_date[s] - 1 \in Dates
    /\ current_date' = [current_date EXCEPT ![s] = current_date[s] - 1]
    /\ food_log_page(s, profiles, weight_logs, logged_in_user[s], current_date[s] - 1)
    /\ UNCHANGED <<dbVars, page, logged_in_user, show_weight_form, run, calcVars>>

\* food_log_page, Previous button (the model stops at day 0)
Previous(s) ==
    /\ Idle(s) /\ page[s] = "food_log"
    /\ current_date[s] - 1 \in Dates
    /\ current_date' = [current_date EXCEPT ![s] = current_date[s] - 1]
    /\ show_weight_form' = [show_weight_form EXCEPT ![s] = FALSE]
    /\ food_log_page(s, profiles, weight_logs, logged_in_user[s], current_date[s] - 1)
    /\ UNCHANGED <<dbVars, page, logged_in_user, run, calcVars>>

\* mutant: the Next button shown on every day
NextDay_always(s) ==
    /\ Idle(s) /\ page[s] = "food_log"
    /\ current_date' = [current_date EXCEPT ![s] = current_date[s] + 1]
    /\ show_weight_form' = [show_weight_form EXCEPT ![s] = FALSE]
    /\ food_log_page(s, profiles, weight_logs, logged_in_user[s], current_date[s] + 1)
    /\ UNCHANGED <<dbVars, page, logged_in_user, run, calcVars>>

\* food_log_page, Next button: shown only when current_date < today
NextDay(s) ==
    /\ Idle(s) /\ page[s] = "food_log"
    /\ current_date[s] < Today
    /\ current_date' = [current_date EXCEPT ![s] = current_date[s] + 1]
    /\ show_weight_form' = [show_weight_form EXCEPT ![s] = FALSE]
    /\ food_log_page(s, profiles, weight_logs, logged_in_user[s], current_date[s] + 1)
    /\ UNCHANGED <<dbVars, page, logged_in_user, run, calcVars>>

\* food_log_page, date picker (max_value = today): another date is selected
PickDate(s, d) ==
    /\ Idle(s) /\ page[s] = "food_log"
    /\ d \in Dates /\ d <= Today /\ d # current_date[s]
    /\ current_date' = [current_date EXCEPT ![s] = d]
    /\ show_weight_form' = [show_weight_form EXCEPT ![s] = FALSE]
    /\ food_log_page(s, profiles, weight_logs, logged_in_user[s], d)
    /\ UNCHANGED <<dbVars, page, logged_in_user, run, calcVars>>

\* food_log_page, "Update Weight" / "Log Weight" button; the weight section
\* is rendered only for a user with a profile
OpenWeightForm(s) ==
    /\ Idle(s) /\ page[s] = "food_log"
    /\ ProfileOf(logged_in_user[s]) # {}
    /\ ~show_weight_form[s]
    /\ show_weight_form' = [show_weight_form EXCEPT ![s] = TRUE]
    /\ food_log_page(s, profiles, weight_logs, logged_in_user[s], current_date[s])
    /\ UNCHANGED <<dbVars, page, logged_in_user, current_date, run, calcVars>>

\* food_log_page, Cancel button of the weight form
CancelWeight(s) ==
    /\ Idle(s) /\ page[s] = "food_log"
    /\ ProfileOf(logged_in_user[s]) # {}
    /\ show_weight_form[s]
    /\ show_weight_form' = [show_weight_form EXCEPT ![s] = FALSE]
    /\ food_log_page(s, profiles, weight_logs, logged_in_user[s], current_date[s])
    /\ UNCHANGED <<dbVars, page, logged_in_user, current_date, run, calcVars>>

\* the rows .filter_by(username, log_date).first() may return
existing_weight_log(session, username, log_date) ==
    {r \in session : r.username = username /\ r.log_date = log_date}

\* food_log_page, Save Weight, first half: the script run started by the
\* submit queries the day's entry ("Check if weight already logged for this
\* date").  `existing` is the primary key it found, 0 for None.  The run has
\* not reached the plan computation yet.
SubmitWeight(s, w) ==
    /\ Idle(s) /\ page[s] = "food_log"
    /\ ProfileOf(logged_in_user[s]) # {}
    /\ show_weight_form[s]
    /\ LET found == existing_weight_log(weight_logs, logged_in_user[s], current_date[s])
           inserting == Cardinality({t \in Sessions : run[t] # PyNone /\ run[t].existing = 0})
       IN  \/ /\ found = {}
              /\ next_id + inserting <= MaxRows
              /\ run' = [run EXCEPT ![s] = [existing |-> 0, weight |-> w,
                                            username |-> logged_in_user[s],
                                            log_date |-> current_date[s]]]
           \/ \E r \in found :
                 run' = [run EXCEPT ![s] = [existing |-> r.id, weight |-> w,
                                            username |-> logged_in_user[s],
                                            log_date |-> current_date[s]]]
    /\ ComputesNothing(s)
    /\ UNCHANGED <<dbVars, page, logged_in_user, current_date, show_weight_form, calcVars>>

\* the table after the run's flush: the UPDATE of the row it loaded, or the
\* INSERT of a new row under primary key id
weight_logs_after_save(session, r, id) ==
    IF r.existing # 0
    THEN {IF x.id = r.existing THEN [x EXCEPT !.weight = r.weight] ELSE x : x \in session}
    ELSE session \cup {WeightLogRow(id, r.username, r.log_date, r.weight)}

\* food_log_page, Save Weight, second half: "if save_weight:" to st.rerun()
\* and the run that follows.  An UPDATE that matches no row (the row was
\* deleted meanwhile) raises, and the run ends with the form still open.
CommitWeight(s) ==
    /\ ~Idle(s)
    /\ LET r == run[s]
           stale == r.existing # 0 /\ ~\E x \in weight_logs : x.id = r.existing
       IN  /\ weight_logs' = IF stale THEN weight_logs
                             ELSE weight_logs_after_save(weight_logs, r, next_id)
           /\ next_id' = IF r.existing = 0 THEN next_id + 1 ELSE next_id
           /\ show_weight_form' = [show_weight_form EXCEPT ![s] = stale]
           /\ IF stale THEN ComputesNothing(s)
              ELSE food_log_page(s, profiles, weight_logs', logged_in_user[s], current_date[s])
    /\ run' = [run EXCEPT ![s] = PyNone]
    /\ UNCHANGED <<users, profiles, page, logged_in_user, current_date, calcVars>>

\* mutant: the filter on log_date left out of the DELETE
DeleteWeight_every_date(s, d) ==
    /\ Idle(s) /\ page[s] = "progress"
    /\ ProfileOf(logged_in_user[s]) # {}
    /\ \E r \in weight_logs : r.username = logged_in_user[s] /\ r.log_date = d
    /\ weight_logs' = {r \in weight_logs : r.username # logged_in_user[s]}
    /\ ComputesNothing(s)
    /\ UNCHANGED <<users, profiles, next_id, sessionVars, calcVars>>

\* progress_page, Delete Selected Entry: every row of the user with the
\* selected entry's date goes
DeleteWeight(s, d) ==
    /\ Idle(s) /\ page[s] = "progress"
    /\ ProfileOf(logged_in_user[s]) # {}
    /\ \E r \in weight_logs : r.username = logged_in_user[s] /\ r.log_date = d
    /\ weight_logs' = {r \in weight_logs : ~(r.username = logged_in_user[s] /\ r.log_date = d)}
    /\ ComputesNothing(s)
    /\ UNCHANGED <<users, profiles, next_id, sessionVars, calcVars>>

\* the login page's run of session s ends showing message `text` for the
\* submitted username and password
Shows(s, level, text, username, password) ==
    /\ shown' = [shown EXCEPT ![s] = [level |-> level, text |-> text,
                                       username |-> username, password |-> password]]
    /\ bmr_args' = [bmr_args EXCEPT ![s] = PyNone]
    /\ targets' = [targets EXCEPT ![s] = PyNone]

\* login_page, Sign Up button, down to the query for the username: an empty
\* field ("if username and password") or a row found ends the run with an
\* error; otherwise the run goes on to insert
SignUp(s, username, password) ==
    /\ Idle(s) /\ page[s] = "login"
    /\ IF username = "" \/ password = ""
       THEN /\ Shows(s, "error", "Please enter both username and password",
                     username, password)
            /\ UNCHANGED run
       ELSE IF \E existing_user \in users : existing_user.username = username
       THEN /\ Shows(s, "error", "Username already exists", username, password)
            /\ UNCHANGED run
       ELSE /\ run' = [run EXCEPT ![s] = [username |-> username, password |-> password]]
            /\ ComputesNothing(s)
    /\ UNCHANGED <<dbVars, page, logged_in_user, current_date, show_weight_form, calcVars>>

\* mutant: a table without the UNIQUE constraint on username whose insert
\* replaces the row of that name
users_after_signup_replacing(table, new_user) ==
    {row \in table : row.username # new_user.username} \cup {new_user}

\* the users table after session.add(new_user); session.commit(): username
\* is declared unique=True, the INSERT of a name that is there fails and the
\* table stays as it is
users_after_signup(table, new_user) ==
    IF \E row \in table : row.username = new_user.username THEN table
    ELSE table \cup {new_user}

\* login_page, Sign Up button, session.add(new_user) and session.commit():
\* the commit raises IntegrityError, which the page shows, if the username
\* was inserted since the query
SignUpCommit(s) ==
    /\ ~Idle(s) /\ page[s] = "login"
    /\ LET new_user == [username |-> run[s].username, password |-> run[s].password]
       IN  /\ users' = users_after_signup(users, new_user)
           /\ IF new_user \in users'  /\ new_user \notin users
              THEN Shows(s, "success", "Account created! Please login.",
                         new_user.username, new_user.password)
              ELSE Shows(s, "error", "IntegrityError", new_user.username,
                         new_user.password)
    /\ run' = [run EXCEPT ![s] = PyNone]
    /\ UNCHANGED <<profiles, weight_logs, next_id, page, logged_in_user, current_date,
                   show_weight_form, calcVars>>

Init == InitApp /\ call = PyNone /\ ret = PyNone

Next ==
    \E s \in Sessions :
        \/ \E u \in SessionUsers[s], pw \in {"pw1", "pw2"} : Login(s, u, pw)
        \/ Logout(s)
        \/ \E target \in {"profile", "food_log", "progress"} : GoTo(s, target)
        \/ \E form \in ProfileForms : SaveProfile(s, form)
        \/ Previous(s)
        \/ NextDay(s)
        \/ \E d \in Dates : PickDate(s, d)
        \/ OpenWeightForm(s)
        \/ CancelWeight(s)
        \/ \E w \in FormWeights : SubmitWeight(s, w)
        \/ CommitWeight(s)
        \/ \E d \in Dates : DeleteWeight(s, d)

Spec == Init /\ [][Next]_vars

\* The login page alone: sign-ups, logins and logouts of two sessions
NextAuth ==
    \E s \in Sessions :
        \/ \E username \in SignUpNames, password \in SignUpPasswords :
              SignUp(s, username, password)
        \/ SignUpCommit(s)
        \/ \E username \in SignUpNames, password \in SignUpPasswords :
              Login(s, username, password)
        \/ Logout(s)

SpecAuth == Init /\ [][NextAuth]_vars


\* ------------------------------------------------------------------------
\* Claims about the pure functions (checked under SpecCalc)
\* ------------------------------------------------------------------------

Returned(fn) == call.fn = fn /\ ret # PyNone

\* the user's entries dated at or before the evaluation date, and the newest
\* of them, read off the history handed to the call
EntriesOnOrBefore == {r \in call.session :
                         r.username = call.username /\ r.log_date <= call.current_date}
NewestEntries == {r \in EntriesOnOrBefore : \A q \in EntriesOnOrBefore : q.log_date <= r.log_date}

\* entry weight minus 1.05 x target weight
DiffOf(r) == Sub(r.weight, Mul(call.target_weight, Dec(105, 2)))

\* C1: more than 3 days out and with a latest entry at or before the
\* evaluation date, the adjuster returns base - 200 when diff > 1.0,
\* base + 200 when diff < -1.0 and base otherwise (diff = +1.0 and -1.0
\* included), and adjusted is true exactly when the result differs from base.
C1_BandAndStep ==
    (Returned("adjust") /\ call.days_to_goal > 3 /\ NewestEntries # {}) =>
        /\ \E r \in NewestEntries :
              /\ Gt(DiffOf(r), Dec(1, 0)) =>
                    ret.calories = Sub(call.base_calories, Dec(200, 0))
              /\ Lt(DiffOf(r), Dec(-1, 0)) =>
                    ret.calories = Add(call.base_calories, Dec(200, 0))
              /\ (~Gt(DiffOf(r), Dec(1, 0)) /\ ~Lt(DiffOf(r), Dec(-1, 0))) =>
                    ret.calories = call.base_calories
        /\ ret.info.adjusted <=> (ret.calories # call.base_calories)
        /\ ret.info.adjusted <=> (ret.info.adjustment # 0)

\* the latest entry is exactly 1.0 lb above the mark and the target is unchanged
C1_Witness ==
    /\ Returned("adjust") /\ call.days_to_goal > 3
    /\ \E r \in NewestEntries : DiffOf(r) = Dec(1, 0)
    /\ ret.calories = call.base_calories /\ ~ret.info.adjusted

\* C2: with days_to_goal <= 3 (0 and negative included) the adjuster returns
\* base_calories and adjusted = false, whatever the weight history holds.
C2_WithinThreeDays ==
    (Returned("adjust") /\ call.days_to_goal <= 3) =>
        ret.calories = call.base_calories /\ ret.info.adjusted = FALSE

\* a negative days_to_goal with a latest entry that is too heavy
C2_Witness ==
    /\ Returned("adjust") /\ call.days_to_goal < 0
    /\ \E r \in NewestEntries : Gt(DiffOf(r), Dec(1, 0))
    /\ ret.calories = call.base_calories

HasNeedsWeightLog(info) == "needs_weight_log" \in DOMAIN info /\ info.needs_weight_log

\* C3: more than 3 days out and with no entry at or before the evaluation
\* date the adjuster still returns: base_calories, adjusted = false,
\* needs_weight_log = true; needs_weight_log is true in no other outcome.
C3_NoWeightLog ==
    /\ (call.fn = "adjust" /\ ret = PyNone) =>
          adjust_calories_based_on_progress(
              call.base_calories, call.current_weight, call.target_weight,
              call.days_to_goal, call.session, call.username, call.current_date) # {}
    /\ (Returned("adjust") /\ call.days_to_goal > 3 /\ EntriesOnOrBefore = {}) =>
          /\ ret.calories = call.base_calories
          /\ ret.info.adjusted = FALSE
          /\ HasNeedsWeightLog(ret.info)
    /\ (Returned("adjust") /\ HasNeedsWeightLog(ret.info)) =>
          call.days_to_goal > 3 /\ EntriesOnOrBefore = {}

\* the history is not empty, but holds nothing at or before the evaluation date
C3_Witness ==
    /\ Returned("adjust") /\ call.days_to_goal > 3
    /\ call.session # {} /\ EntriesOnOrBefore = {}
    /\ HasNeedsWeightLog(ret.info)

\* C4: the weight compared is that of the user's entry with the greatest
\* date <= evaluation_date: later entries and other users' entries have no
\* influence, and no older entry is taken when a newer one is there.
C4_LatestEntry ==
    (Returned("adjust") /\ call.days_to_goal > 3) =>
        IF EntriesOnOrBefore = {}
        THEN "actual_weight" \notin DOMAIN ret.info
        ELSE \E r \in EntriesOnOrBefore :
                /\ \A q \in EntriesOnOrBefore : q.log_date <= r.log_date
                /\ ret.info.actual_weight = r.weight
                /\ ret.info.difference = DiffOf(r)

\* an older and a newer entry of different weights, both at or before the date
C4_Witness ==
    /\ Returned("adjust") /\ call.days_to_goal > 3
    /\ \E r, q \in EntriesOnOrBefore :
          /\ q.log_date < r.log_date /\ q.weight # r.weight
          /\ ret.info.actual_weight = r.weight

\* the days to goal of an assembled plan's call
PlanDays == IF call.fn = "food_log" THEN call.profile.target_date - call.current_date
            ELSE call.form.target_date - call.form.today_date
PlanProfile == IF call.fn = "food_log" THEN call.profile ELSE call.form
PlanReturned == Returned("food_log") \/ Returned("profile")

Multiplier(days) == IF days = 2 THEN Dec(155, 2)
                    ELSE IF days = 1 THEN Dec(1375, 3)
                    ELSE Dec(1725, 3)
FatFraction(days) == IF days = 2 THEN Dec(35, 2)
                     ELSE IF days = 1 THEN Dec(45, 2)
                     ELSE Dec(25, 2)

BodyFatKnown(bf) == bf # PyNone /\ Gt(bf, Zero)

\* C8: in the daily plan protein_grams = 1.2 x weight x (1 - bf/100) for
\* every body fat percentage known and > 0, up to and including 100, and
\* protein_grams = weight when it is absent or zero.
C8_ProteinGrams ==
    Returned("food_log") =>
        LET p == call.profile
        IN  IF BodyFatKnown(p.bodyfat_percentage)
            THEN ret.macros.protein_grams =
                    Mul(Dec(12, 1),
                        Mul(p.weight, Sub(Dec(1, 0), Mul(p.bodyfat_percentage, Dec(1, 2)))))
            ELSE ret.macros.protein_grams = p.weight

\* C9: Katch-McArdle exactly when body fat is present and > 0, Mifflin-St
\* Jeor exactly when it is 0 or absent; height has no effect on Katch-McArdle.
C9_BmrFormula ==
    Returned("bmr") =>
        LET weight_kg == Mul(call.weight, Dec(453592, 6))
        IN  IF BodyFatKnown(call.bodyfat_percentage)
            THEN /\ ret = Add(Dec(370, 0),
                              Mul(Dec(216, 1),
                                  Mul(weight_kg,
                                      Sub(Dec(1, 0), Mul(call.bodyfat_percentage, Dec(1, 2))))))
                 /\ \A h \in Heights :
                       calculate_bmr_and_calories(call.weight, h, call.bodyfat_percentage) = ret
            ELSE ret = Sub(Add(Mul(Dec(10, 0), weight_kg),
                               Mul(Dec(625, 2), Mul(call.height, Dec(254, 2)))),
                           Dec(145, 0))

\* body fat entered as 0
C9_Witness == Returned("bmr") /\ call.bodyfat_percentage = Zero

\* C10: the plan's macros are computed from the adjuster's target_calories
\* and the tier's fat fraction, and tier and micros from the same
\* days_to_goal; more than 3 days out with no weight log: calories =
\* BMR x 1.725, fat_calories = 0.25 x calories, fiber 30, sodium 2300.
C10_Assembly ==
    Returned("food_log") =>
        LET p == call.profile
            days == p.target_date - call.current_date
            bmr == calculate_bmr_and_calories(p.weight, p.height, p.bodyfat_percentage)
            adjusted == adjust_calories_based_on_progress(
                            Mul(bmr, Multiplier(days)), p.weight, p.target_weight, days,
                            call.session, call.username, call.current_date)
        IN  /\ \E a \in adjusted : ret.target_calories = a.calories
                                   /\ ret.adjustment_info = a.info
            /\ ret.macros.fat_calories = Mul(ret.target_calories, FatFraction(days))
            /\ ret.macros.carb_calories =
                  Sub(Sub(ret.target_calories, ret.macros.protein_calories),
                      ret.macros.fat_calories)
            /\ ret.micros = calculate_micros(days)
            /\ (days > 3 /\ call.session = {}) =>
                  /\ ret.target_calories = Mul(bmr, Dec(1725, 3))
                  /\ ret.macros.fat_calories = Mul(Dec(25, 2), ret.target_calories)
                  /\ ret.micros = [fiber_grams |-> 30, sodium_mg |-> 2300]

\* a plan whose target was adjusted: the macros follow the adjusted value
C10_Witness ==
    /\ Returned("food_log") /\ ret.adjustment_info.adjusted
    /\ ret.target_calories # ret.base_calories
    /\ ret.macros.fat_calories = Mul(ret.target_calories, Dec(25, 2))

\* ------------------------------------------------------------------------
\* Claims about the weight-log store (checked under Spec)
\* ------------------------------------------------------------------------

\* C5: the store holds at most one entry per (user, date) in every reachable
\* state, also after saves for one date from two interleaved sessions of the
\* same user.
C5_OneEntryPerUserDate ==
    \A r, q \in weight_logs :
        (r.username = q.username /\ r.log_date = q.log_date) => r.id = q.id

\* ------------------------------------------------------------------------
\* Further claims about the pure functions (checked under SpecCalc)
\* ------------------------------------------------------------------------

\* C11: the micro allocator maps days_to_goal 3 -> (fiber 8 g, sodium
\* 1500 mg), 2 -> (5, 1000), 1 -> (4, 800) and every other integer, <= 0 or
\* >= 4, -> (30, 2300).
C11_MicroTable ==
    Returned("micros") =>
        /\ call.days_to_goal = 3 => ret = [fiber_grams |-> 8, sodium_mg |-> 1500]
        /\ call.days_to_goal = 2 => ret = [fiber_grams |-> 5, sodium_mg |-> 1000]
        /\ call.days_to_goal = 1 => ret = [fiber_grams |-> 4, sodium_mg |-> 800]
        /\ (call.days_to_goal <= 0 \/ call.days_to_goal >= 4) =>
              ret = [fiber_grams |-> 30, sodium_mg |-> 2300]

\* a target date already passed: the default row
C11_Witness ==
    /\ Returned("micros") /\ call.days_to_goal < 0
    /\ ret = [fiber_grams |-> 30, sodium_mg |-> 2300]

\* ------------------------------------------------------------------------
\* Claims about the sessions and what their script runs compute (Spec)
\* ------------------------------------------------------------------------

\* C12: at every call of the BMR estimator, from the profile-page preview of
\* the form values and from the food-log page computing from the saved
\* profile, weight > 0 and height > 0, after any sequence of profile saves
\* and page navigations.
C12_PositiveAtBmrCall ==
    \A s \in Sessions :
        bmr_args[s] # PyNone =>
            Gt(bmr_args[s].weight, Zero) /\ Gt(bmr_args[s].height, Zero)

\* what session s holds in st.session_state
SessionState(s) ==
    <<page[s], logged_in_user[s], current_date[s], show_weight_form[s], run[s]>>

\* a step in which a script run of session s computes the food-log plan
FoodLogComputed(s) ==
    /\ SessionState(s)' # SessionState(s)
    /\ page'[s] = "food_log" /\ targets'[s] # PyNone

\* such a step that handles no submitted form: arriving on the page, changing
\* the date, opening or cancelling the weight form
PlanOnlyStep(s) == Idle(s) /\ FoodLogComputed(s)

\* the entries of user u dated on or before day d
OwnEntries(logs, u, d) == {r \in logs : r.username = u /\ r.log_date <= d}

\* C13: computing the daily targets is read-only: a run that evaluates the
\* plan leaves the stored users, profiles and weight entries as they are, and
\* the plan depends on the stores only through the profile's values and the
\* user's own weight entries up to the evaluation date.
C13_ReadOnly ==
    [][\A s \in Sessions :
          PlanOnlyStep(s) =>
              /\ UNCHANGED <<users, profiles, weight_logs, next_id>>
              /\ \E p \in ProfileOf(logged_in_user[s]) :
                    targets'[s] \in
                        food_log_plans_of(FormOf(p),
                                 OwnEntries(weight_logs, logged_in_user[s], current_date'[s]),
                                 logged_in_user[s], current_date'[s])]_vars

\* a plan adjusted from a stored entry is on show and the entry is still stored
C13_Witness ==
    \E s \in Sessions :
        /\ page[s] = "food_log" /\ targets[s] # PyNone
        /\ targets[s].adjustment_info.adjusted
        /\ \E r \in weight_logs :
              /\ r.username = logged_in_user[s]
              /\ r.weight = targets[s].adjustment_info.actual_weight

\* C14: the daily targets are never cached: every computation of the
\* food-log plan reflects the profile and the weight history as they are at
\* that read: the newest entry on or before the evaluation date is the one
\* compared, and with none left the plan asks for a weight log.
C14_NeverCached ==
    [][\A s \in Sessions :
          FoodLogComputed(s) =>
              \E p \in {q \in profiles' : q.username = logged_in_user'[s]} :
                  LET d == current_date'[s]
                      plan == targets'[s]
                      newest == latest_weight_log(weight_logs', logged_in_user'[s], d)
                  IN  /\ plan.days_to_goal = p.target_date - d
                      /\ plan \in food_log_plans_of(FormOf(p), weight_logs',
                                            logged_in_user'[s], d)
                      /\ plan.days_to_goal > 3 =>
                            IF newest = {}
                            THEN /\ HasNeedsWeightLog(plan.adjustment_info)
                                 /\ plan.target_calories = plan.base_calories
                            ELSE \E r \in newest :
                                    plan.adjustment_info.actual_weight = r.weight]_vars

\* two sessions of one user on the same day's food log: one computed its plan
\* before the weight was saved, the other after
C14_Witness ==
    \E s, t \in Sessions :
        /\ s # t /\ logged_in_user[s] = logged_in_user[t]
        /\ page[s] = "food_log" /\ page[t] = "food_log"
        /\ current_date[s] = current_date[t]
        /\ targets[s] # PyNone /\ targets[t] # PyNone
        /\ HasNeedsWeightLog(targets[s].adjustment_info)
        /\ "actual_weight" \in DOMAIN targets[t].adjustment_info
        /\ \E r \in weight_logs : r.weight = targets[t].adjustment_info.actual_weight

\* C15: the daily plan is deterministic: the profile values, the evaluation
\* date and the set of stored weight entries determine the plan the food-log
\* page computes (no session or UI state, no order of saving enters).
C15_Deterministic ==
    \A s \in Sessions :
        (page[s] = "food_log" /\ Idle(s)) =>
            \A p \in ProfileOf(logged_in_user[s]) :
                Cardinality(food_log_plans_of(FormOf(p), weight_logs,
                                     logged_in_user[s], current_date[s])) <= 1

C18_StoredWeightPositive ==
    \A r \in weight_logs : Gt(r.weight, Zero)

\* ------------------------------------------------------------------------
\* Further claims about the pure functions, continued (SpecCalc)
\* ------------------------------------------------------------------------

\* C17: every adjustment info the adjuster returns, in each of its outcomes
\* (within 3 days, no weight log, on track, +200, -200), carries all four
\* fields: adjusted, the signed calorie delta, a reason and needs_weight_log.
C17_InfoFields ==
    Returned("adjust") =>
        {"adjusted", "adjustment", "reason", "needs_weight_log"} \subseteq DOMAIN ret.info

\* weights and body fat percentages the BMR of a call is compared with
CompareWeights == {Dec(1090, 1), Dec(1091, 1), Dec(1800, 1), Dec(2500, 1)}
CompareBodyFats == {Dec(1, 1), Dec(146, 1), Dec(147, 1), Dec(20, 0), Dec(999, 1), Dec(100, 0)}

\* C19: with body fat > 0 the Katch-McArdle BMR is strictly increasing in
\* weight for a fixed body fat percentage below 100, and strictly decreasing
\* in the body fat percentage for a fixed positive weight.
C19_KatchMonotone ==
    (Returned("bmr") /\ BodyFatKnown(call.bodyfat_percentage)) =>
        /\ Lt(call.bodyfat_percentage, Dec(100, 0)) =>
              \A w \in CompareWeights :
                  LET other == calculate_bmr_and_calories(w, call.height,
                                                          call.bodyfat_percentage)
                  IN  /\ Lt(call.weight, w) => Lt(ret, other)
                      /\ Gt(call.weight, w) => Gt(ret, other)
        /\ Gt(call.weight, Zero) =>
              \A bf \in CompareBodyFats :
                  LET other == calculate_bmr_and_calories(call.weight, call.height, bf)
                  IN  /\ Lt(call.bodyfat_percentage, bf) => Gt(ret, other)
                      /\ Gt(call.bodyfat_percentage, bf) => Lt(ret, other)

\* body fat 100: the lowest BMR of all, 370
C19_Witness ==
    /\ Returned("bmr") /\ call.bodyfat_percentage = Dec(100, 0)
    /\ ret = Dec(370, 0)

MacroNames == {"calories", "protein", "fat", "carbs", "fiber", "sodium"}

\* USDA nutrient ids: 1008 energy, 1003 protein, 1004 fat, 1005 carbohydrate,
\* 1079 fiber, 1093 sodium
UsdaId(name) ==
    CASE name = "calories" -> 1008
      [] name = "protein" -> 1003
      [] name = "fat" -> 1004
      [] name = "carbs" -> 1005
      [] name = "fiber" -> 1079
      [] name = "sodium" -> 1093

\* the rows of the called food that give nutrient `name` an amount
RowsWithAmount(name) ==
    {r \in call.food_nutrient : /\ r.fdc_id = call.fdc_id
                                /\ r.nutrient_id = UsdaId(name)
                                /\ r.amount # PyNone}

\* C20: the food nutrient lookup returns a value for each of calories,
\* protein, fat, carbs, fiber and sodium for every food id: 0 for a nutrient
\* with no row (or a food with no rows at all, or a row without an amount),
\* and the row's amount for a nutrient that has a row.
C20_FoodMacros ==
    Returned("food_macros") =>
        /\ DOMAIN ret = MacroNames
        /\ \A name \in MacroNames :
              IF RowsWithAmount(name) = {} THEN ret[name] = Zero
              ELSE \E r \in RowsWithAmount(name) : ret[name] = r.amount

\* a food with an energy row, a fat row whose amount is NULL and no other row
C20_Witness ==
    /\ Returned("food_macros")
    /\ ret.calories = Dec(52, 0) /\ ret.fat = Zero /\ ret.sodium = Zero
    /\ \E r \in call.food_nutrient :
          r.fdc_id = call.fdc_id /\ r.nutrient_id = 1004 /\ r.amount = PyNone


\* C21: the profile page and the food-log page subscript adjustment_info only
\* with keys the adjuster's result has: whatever the outcome (within 3 days,
\* no weight log, on track, +200, -200), the display block of neither page
\* reads a missing field, and 'adjustment' is read only where it is present.
C21_DisplayReads ==
    Returned("display") =>
        /\ ret.reads \subseteq DOMAIN ret.info
        /\ \A pg \in {"profile", "food_log"} :
              display_reads(pg, ret.info, call.days_to_goal) \subseteq DOMAIN ret.info

\* the outcome within 3 days, which has no 'adjustment' field, on show
C21_Witness ==
    /\ Returned("display") /\ call.days_to_goal <= 3
    /\ "adjustment" \notin DOMAIN ret.info
    /\ "adjusted" \in ret.reads


\* the plans food_log_page computes from the values of the called profile
\* form, its today_date as the evaluation date
FoodLogPlansOfForm ==
    food_log_targets(call.form, call.session, call.username, call.form.today_date)

\* C22: the plan computation of the profile page and that of the food-log
\* page are equivalent: from the same weight, height, body fat, target
\* weight, target date, evaluation date and weight history both produce the
\* same BMR, base calories, fat fraction, adjusted calories, macros and
\* micros.
C22_SamePlan ==
    call.fn = "profile" =>
        profile_targets(call.form, call.session, call.username) = FoodLogPlansOfForm


\* values of current_weight the result of a call is compared under
StatedWeights == {Zero, Dec(1500, 1), Dec(1575, 1), Dec(1800, 1), Dec(2500, 1)}

\* the results of the called adjuster with current_weight replaced by w
AdjustWithStatedWeight(w) ==
    adjust_calories_based_on_progress(
        call.base_calories, w, call.target_weight, call.days_to_goal,
        call.session, call.username, call.current_date)

\* C23: the adjuster's result (calories and adjustment info) is the same for
\* every value of current_weight, the other arguments and the weight history
\* being equal; with no weight entry the stated weight does not stand in for
\* the missing log: the base calories come back with needs_weight_log.
C23_CurrentWeightUnused ==
    Returned("adjust") =>
        /\ \A w \in StatedWeights : AdjustWithStatedWeight(w) = AdjustWithStatedWeight(call.current_weight)
        /\ ret \in AdjustWithStatedWeight(call.current_weight)
        /\ (call.days_to_goal > 3 /\ EntriesOnOrBefore = {}) =>
              /\ ret.calories = call.base_calories
              /\ ~ret.info.adjusted
              /\ "actual_weight" \notin DOMAIN ret.info
              /\ HasNeedsWeightLog(ret.info)

\* a call more than 3 days out whose stated weight, 180.0, is far above the
\* band around 157.5, and no entry to compare: the calories stay at the base
C23_Witness ==
    /\ Returned("adjust") /\ call.days_to_goal > 3 /\ EntriesOnOrBefore = {}
    /\ Gt(Sub(call.current_weight, Mul(call.target_weight, Dec(105, 2))), Dec(1, 0))
    /\ ret.calories = call.base_calories


\* latest weights the result of a call is compared with (the band around
\* 157.5 and 168.0, both its sides and its end points)
LatestWeights == LogWeights \cup {Zero, Dec(1400, 1), Dec(1670, 1), Dec(1690, 1), Dec(2500, 1)}

\* the calorie target of the called adjuster had the latest entry weight w
CaloriesAtLatest(w) ==
    LET results == adjust_calories_based_on_progress(
                       call.base_calories, call.current_weight, call.target_weight,
                       call.days_to_goal,
                       {WeightLogRow(1, call.username, call.current_date, w)},
                       call.username, call.current_date)
    IN  (CHOOSE adj \in results : TRUE).calories

\* C24: for fixed base calories, target weight and days_to_goal > 3 the
\* calorie target does not increase with the latest logged weight (a heavier
\* latest entry never gives a higher target than a lighter one), and it
\* differs from the base calories by exactly -200, 0 or +200.
C24_MonotoneInLatestWeight ==
    (Returned("adjust") /\ call.days_to_goal > 3 /\ NewestEntries # {}) =>
        /\ LET calories == [w \in LatestWeights |-> CaloriesAtLatest(w)]
           IN  /\ \A v, w \in LatestWeights :
                     Lt(v, w) => ~Gt(calories[w], calories[v])
               /\ \A w \in LatestWeights :
                     /\ ~Gt(w, ret.info.actual_weight) => ~Lt(calories[w], ret.calories)
                     /\ ~Lt(w, ret.info.actual_weight) => ~Gt(calories[w], ret.calories)
        /\ Sub(ret.calories, call.base_calories) \in {Dec(-200, 0), Zero, Dec(200, 0)}

\* a call answered from an entry above the band: the target is the base - 200,
\* below what the lighter weights give
C24_Witness ==
    /\ Returned("adjust") /\ call.days_to_goal > 3
    /\ \E r \in NewestEntries : r.weight = ret.info.actual_weight
    /\ ret.calories = Sub(call.base_calories, Dec(200, 0))
    /\ CaloriesAtLatest(Dec(1400, 1)) = Add(call.base_calories, Dec(200, 0))


\* the entries of user u with the greatest date on or before day d
NewestOwnEntries(logs, u, d) ==
    {r \in OwnEntries(logs, u, d) : \A q \in OwnEntries(logs, u, d) : q.log_date <= r.log_date}

\* C25: a deletion on the progress page removes the entries of the session's
\* user for the selected date and nothing else: no entry for (user, date)
\* remains, entries of other dates and of other users stay as they are; the
\* plan computed from the table left behind compares the newest remaining
\* entry at or before the evaluation date, or asks for a weight log when
\* none is left.
C25_DeleteAndFallBack ==
    [][(weight_logs' \subseteq weight_logs /\ weight_logs' # weight_logs) =>
          \E s \in Sessions :
              LET u == logged_in_user[s]
                  gone == weight_logs \ weight_logs'
              IN  /\ page[s] = "progress" /\ u # NoUser
                  /\ \E d \in Dates :
                        /\ \A r \in gone : r.username = u /\ r.log_date = d
                        /\ ~\E r \in weight_logs' : r.username = u /\ r.log_date = d
                  /\ \A p \in ProfileOf(u), e \in Dates :
                        \A plan \in food_log_plans_of(FormOf(p), weight_logs', u, e) :
                            plan.days_to_goal > 3 =>
                                IF NewestOwnEntries(weight_logs', u, e) = {}
                                THEN /\ HasNeedsWeightLog(plan.adjustment_info)
                                     /\ plan.target_calories = plan.base_calories
                                ELSE \E r \in NewestOwnEntries(weight_logs', u, e) :
                                        plan.adjustment_info.actual_weight = r.weight]_vars

\* two entries were saved, the later one is deleted, and the plan of the
\* later day is computed from the earlier entry
C25_Witness ==
    \E s \in Sessions :
        /\ page[s] = "food_log" /\ Idle(s) /\ targets[s] # PyNone
        /\ next_id = 3 /\ Cardinality(weight_logs) = 1
        /\ \E r \in weight_logs :
              /\ r.username = logged_in_user[s] /\ r.log_date < current_date[s]
              /\ "actual_weight" \in DOMAIN targets[s].adjustment_info
              /\ targets[s].adjustment_info.actual_weight = r.weight


\* C26: a weight save writes the entry of the date that was shown when the
\* weight form was opened: every change of current_date (Previous, Next,
\* date picker) closes the form, the date cannot change while the form stays
\* open, and the rows a save inserts or updates carry the current_date of the
\* session whose form was submitted.
C26_SaveWritesShownDate ==
    [][\A s \in Sessions :
          /\ current_date'[s] # current_date[s] => ~show_weight_form'[s]
          /\ (show_weight_form[s] /\ show_weight_form'[s]) => current_date'[s] = current_date[s]
          /\ (run[s] = PyNone /\ run'[s] # PyNone) =>
                show_weight_form[s] /\ run'[s].log_date = current_date[s]
          /\ (run[s] # PyNone /\ run'[s] = PyNone) =>
                /\ current_date'[s] = current_date[s]
                /\ \A r \in weight_logs' \ weight_logs :
                      r.log_date = current_date[s] /\ r.username = logged_in_user[s]]_vars

\* a weight saved under a past day the session navigated to: the form is
\* closed again and the day is still on show
C26_Witness ==
    \E s \in Sessions :
        /\ page[s] = "food_log" /\ Idle(s) /\ ~show_weight_form[s]
        /\ current_date[s] < Today
        /\ \E r \in weight_logs :
              r.username = logged_in_user[s] /\ r.log_date = current_date[s]


\* C27: whatever the Previous, Next and date-picker actions a session has
\* taken, its current_date is never later than today; going back is what
\* the buttons leave open (as far as the days of the model reach).
C27_NotAfterToday ==
    \A s \in Sessions : current_date[s] <= Today

\* a session that went back as far as the model's days reach, while another
\* is on today's food log
C27_Witness ==
    \E s, t \in Sessions :
        /\ page[s] = "food_log" /\ current_date[s] = Today - MaxBack
        /\ page[t] = "food_log" /\ current_date[t] = Today


\* the session state of s is that of somebody logged in / of nobody
LoggedIn(s) ==
    /\ page[s] \in {"profile", "food_log", "progress"}
    /\ \E row \in users : row.username = logged_in_user[s]

LoggedOut(s) == page[s] = "login" /\ logged_in_user[s] = NoUser

\* C28: in every reachable session state page is one of login, profile,
\* food_log and progress, and a page other than login is shown only with
\* logged_in_user set: a session leaves the login page only by a login that
\* matched a row of users, and every logout resets logged_in_user to None
\* and page to login together.
C28_PagesNeedLogin ==
    /\ [](\A s \in Sessions : LoggedIn(s) \/ LoggedOut(s))
    /\ [][\A s \in Sessions :
             /\ (LoggedOut(s) /\ ~LoggedOut(s)') =>
                   /\ page'[s] = "profile"
                   /\ \E row \in users : row.username = logged_in_user'[s]
             /\ (LoggedIn(s) /\ logged_in_user'[s] # logged_in_user[s]) => LoggedOut(s)'
             /\ (LoggedIn(s) /\ page'[s] = "login") => LoggedOut(s)']_vars

\* a session that is back on the login page after a visit to a past day of
\* the food log, while the other session is on the progress page
C28_Witness ==
    \E s, t \in Sessions :
        /\ LoggedOut(s) /\ current_date[s] < Today
        /\ LoggedIn(t) /\ page[t] = "progress"


\* what the sign-up run of session s showed in this step, if it showed anything
SignUpShown(s) == shown'[s] # PyNone /\ shown'[s] # shown[s]

\* C29: sign-up keeps usernames unique: a sign-up with a username that is
\* already there, or with an empty username or password, shows an error and
\* leaves the users table as it is (the password of the existing user is not
\* replaced); any other sign-up adds exactly its row; at most one row exists
\* per username after any sequence of sign-ups.
C29_SignUpUnique ==
    /\ [](\A a, b \in users : a.username = b.username => a = b)
    /\ [][/\ \A s \in Sessions :
                SignUpShown(s) =>
                    LET f == shown'[s] IN
                    IF \/ f.username = "" \/ f.password = ""
                       \/ \E row \in users : row.username = f.username
                    THEN f.level = "error" /\ users' = users
                    ELSE /\ f.level = "success"
                         /\ users' = users \cup {[username |-> f.username,
                                                  password |-> f.password]}
          /\ users' # users => \E s \in Sessions : SignUpShown(s)]_vars

\* two sign-ups of the new name with two passwords: the second was refused
\* and the table holds the password of the first
C29_Witness ==
    \E s \in Sessions, row \in users :
        /\ row.username = "u3"
        /\ shown[s] # PyNone /\ shown[s].level = "error"
        /\ shown[s].username = "u3" /\ shown[s].password # row.password


\* two exact ratios are the same number
QuotEq(p, q) == Mul(p.num, q.den) = Mul(q.num, p.den)

\* the share, in percent, of the way from the first logged weight to the
\* target weight that the latest logged weight has covered, cut to [0, 100]
GoalShare ==
    LET share == Quot(Mul(Sub(ret.starting_weight, ret.current_weight), Dec(100, 0)),
                      Sub(ret.starting_weight, call.target_weight))
    IN  IF QuotLt(share, Zero) THEN Quot(Zero, Dec(1, 0))
        ELSE IF QuotGt(share, Dec(100, 0)) THEN Quot(Dec(100, 0), Dec(1, 0))
        ELSE share

\* C30: when the first logged weight differs from the target weight, the
\* "of goal reached" percentage of the progress page is the share of the
\* distance from the first logged weight to the target weight that the
\* latest logged weight has covered, clamped to [0, 100]: 0 when the latest
\* weight is the first logged weight, 100 when it is the target weight.
C30_GoalShare ==
    (Returned("progress") /\ ret.starting_weight # call.target_weight) =>
        /\ QuotEq(ret.progress_percentage, GoalShare)
        /\ ret.current_weight = ret.starting_weight =>
              QuotEq(ret.progress_percentage, Quot(Zero, Dec(1, 0)))
        /\ ret.current_weight = call.target_weight =>
              QuotEq(ret.progress_percentage, Quot(Dec(100, 0), Dec(1, 0)))

====
